---- MODULE Spec2Model ----
(***************************************************************************)
(* Model of src/isolate/executor.cc: the per-isolate Executor, its         *)
(* CpuTimer and WallTimer, and the scoped types Scope, Lock and Unlock.    *)
(*                                                                         *)
(* Every thread owns a stack of scope frames (the C++ objects of its       *)
(* nested blocks).  A CpuTimer or WallTimer is named by the pointer        *)
(* <<thread, frame index>> of the frame that holds it; <<>> is nullptr.    *)
(* A step of a constructor or destructor is a run of statements of which   *)
(* at most one can race with another thread: an unguarded read, a          *)
(* timer_mutex section on an executor whose isolate the thread does not    *)
(* hold, or taking the locker.  Now() is the steady clock (lines 66-68).   *)
(* A failed assert ends the process: failed_assert records which one and   *)
(* no further step is taken; in a build that defines NDEBUG the assert is   *)
(* no statement and the threads go on.  A std::lock_guard on timer_mutex is taken    *)
(* and given back inside one step; MutexLock lets a thread take it one     *)
(* step ahead of a section, so that a held timer_mutex is a visible state. *)
(***************************************************************************)
EXTENDS Integers, Sequences, FiniteSets, TLC

\* Bounds of the model.
MaxOps == 3
MaxTime == 1

Threads == {"T", "U"}
Executors == {"A", "B"}
\* The executors that may be constructed; the threads enter A and B only.
AllExecutors == {"A", "B", "C"}
NoExecutor == "null"
NoThread == "none"
NullPtr == <<>>

VARIABLES
    stack,              \* per thread: the frames of its live scoped objects
    pc,                 \* per thread: position inside a constructor/destructor
    current_executor,   \* thread_local Executor::current_executor
    cpu_timer_thread,   \* thread_local Executor::cpu_timer_thread
    cpu_time,           \* Executor::cpu_time
    wall_time,          \* Executor::wall_time
    cpu_timer,          \* Executor::cpu_timer
    wall_timer,         \* Executor::wall_timer
    locker,             \* per isolate: the thread holding v8::Locker, or none
    holder_paused,      \* per isolate: timer_t::pause calls not yet resumed
    timer_mutex,        \* Executor::timer_mutex: the thread holding it, or none
    now,                \* the clock
    failed_assert,      \* "none", or the function whose assert failed
    ops,                \* scopes constructed so far, by all threads
    entry,              \* per thread: thread-local slots when its stack was last empty
    default_executor,   \* Executor::default_executor, or null before construction
    default_thread,     \* Executor::default_thread
    ndebug              \* the build defines NDEBUG: assert(...) expands to nothing

vars == <<stack, pc, current_executor, cpu_timer_thread, cpu_time, wall_time,
          cpu_timer, wall_timer, locker, holder_paused, timer_mutex, now,
          failed_assert, ops, entry, default_executor, default_thread, ndebug>>

made == <<default_executor, default_thread>>

shared == <<cpu_time, wall_time, cpu_timer, wall_timer, locker, holder_paused,
            timer_mutex, failed_assert>>

----------------------------------------------------------------------------
\* Frames and pointers

Depth(t) == Len(stack[t])
Top(t) == stack[t][Depth(t)]
Ptr(t, i) == <<t, i>>
Obj(p) == stack[p[1]][p[2]]

NewFrame(k, e, t) ==
    [kind |-> k, ex |-> e,
     last |-> current_executor[t],          \* Scope::last
     wt_cpu |-> NullPtr, wt_time |-> 0,     \* WallTimer::cpu_timer, ::time
     has_lock |-> FALSE,                    \* v8::Locker took the isolate
     ct_last |-> NullPtr, ct_time |-> 0,    \* CpuTimer::last, ::time
     ct_state |-> "none",                   \* the CpuTimer: none, new, on, paused
     ps_timer |-> NullPtr]                  \* PauseScope::timer

Push(s, t, f) == [s EXCEPT ![t] = Append(@, f)]
Pop(s, t) == [s EXCEPT ![t] = SubSeq(@, 1, Len(@) - 1)]
SetTop(t, f) == [stack EXCEPT ![t][Depth(t)] = f]

\* The process is running: no assert has ended it (with NDEBUG none can), and
\* it has not used a null pointer.
Alive == failed_assert = "none" \/ (ndebug /\ failed_assert # "null")

\* assert(ok) in the function f: the first failure is remembered.
Checked(ok, f) == IF ok \/ failed_assert # "none" THEN failed_assert ELSE f

Running(t) == pc[t] = "run" /\ Alive
At(t, l) == pc[t] = l /\ Alive
Goto(t, l) == pc' = [pc EXCEPT ![t] = l]

Now == now

\* std::lock_guard<std::mutex> lock{executor.timer_mutex}: taken by t ...
LockGuard(m, e, t) == [m EXCEPT ![e] = t]

\* Mutant: the guard is not given back at the end of its block.
Unguard_leak(m, e) == m

\* ... and given back at the end of the guard's block.
Unguard(m, e) == [m EXCEPT ![e] = NoThread]

\* A whole timer_mutex section of thread t on executor e inside one step; the
\* section waits while another thread holds the mutex.
Section(t, e) ==
    /\ timer_mutex[e] \in {NoThread, t}
    /\ timer_mutex' = Unguard(LockGuard(timer_mutex, e, t), e)

----------------------------------------------------------------------------
\* Mutant: every executor is its own default.
ExecutorCtor_self(ce, t, e, dt) ==
    [current |-> IF ce = NoExecutor THEN e ELSE ce,
     default_executor |-> e,
     default_thread |-> t]

\* Executor::Executor (lines 10-13): thread t, whose current_executor is ce,
\* constructs e; dt holds the default_thread of the executors there are.
ExecutorCtor(ce, t, e, dt) ==
    [current |-> IF ce = NoExecutor THEN e ELSE ce,
     default_executor |-> IF ce = NoExecutor THEN e ELSE ce,
     default_thread |-> IF ce = NoExecutor THEN t ELSE dt[ce]]

\* No executor is constructed.
Unmade == [e \in AllExecutors |-> NoExecutor]
NoDefaultThread == [e \in AllExecutors |-> NoThread]

\* The timers, the lockers and the threads before any scope.
InitScopes ==
    /\ stack = [t \in Threads |-> <<>>]
    /\ pc = [t \in Threads |-> "run"]
    /\ cpu_timer_thread = [t \in Threads |-> NullPtr]
    /\ cpu_time = [e \in Executors |-> 0]
    /\ wall_time = [e \in Executors |-> 0]
    /\ cpu_timer = [e \in Executors |-> NullPtr]
    /\ wall_timer = [e \in Executors |-> NullPtr]
    /\ locker = [e \in Executors |-> NoThread]
    /\ holder_paused = [e \in Executors |-> 0]
    /\ timer_mutex = [e \in Executors |-> NoThread]
    /\ now = 0
    /\ failed_assert = "none"
    /\ ops = 0
    /\ entry = [t \in Threads |->
            [current_executor |-> current_executor[t], cpu_timer_thread |-> NullPtr]]

\* The state after T constructed A and then B.
InitMade ==
    LET a == ExecutorCtor(NoExecutor, "T", "A", NoDefaultThread)
        b == ExecutorCtor(a.current, "T", "B",
                          [NoDefaultThread EXCEPT !["A"] = a.default_thread])
    IN  /\ current_executor = [t \in Threads |->
                IF t = "T" THEN b.current ELSE NoExecutor]
        /\ default_executor = [Unmade EXCEPT !["A"] = a.default_executor,
                                             !["B"] = b.default_executor]
        /\ default_thread = [NoDefaultThread EXCEPT !["A"] = a.default_thread,
                                                    !["B"] = b.default_thread]
        /\ InitScopes

\* ... in a build with asserts,
Init == InitMade /\ ndebug = FALSE

\* ... and in a build that defines NDEBUG.
InitRelease == InitMade /\ ndebug = TRUE

\* The state before any executor is constructed.
InitCtor ==
    /\ current_executor = [t \in Threads |-> NoExecutor]
    /\ default_executor = Unmade
    /\ default_thread = NoDefaultThread
    /\ InitScopes
    /\ ndebug = FALSE

\* Thread t constructs the executor e.
Construct(t, e) ==
    LET x == ExecutorCtor(current_executor[t], t, e, default_thread) IN
    /\ Running(t)
    /\ default_executor[e] = NoExecutor
    /\ current_executor' = [current_executor EXCEPT ![t] = x.current]
    /\ default_executor' = [default_executor EXCEPT ![e] = x.default_executor]
    /\ default_thread' = [default_thread EXCEPT ![e] = x.default_thread]
    /\ UNCHANGED <<stack, pc, cpu_timer_thread, shared, now, ops, entry, ndebug>>

----------------------------------------------------------------------------
\* Mutant: Pause leaves the timer installed.
Pause_keep(p) ==
    LET e == Obj(p).ex IN
    /\ cpu_time' = [cpu_time EXCEPT ![e] = @ + (Now - Obj(p).ct_time)]
    /\ failed_assert' = Checked(cpu_timer[e] = p, "Pause")
    /\ cpu_timer' = cpu_timer
    /\ holder_paused' = [holder_paused EXCEPT ![e] = @ + 1]

\* The stack once Pause has been called on the timer p.
Paused(p) == [stack EXCEPT ![p[1]][p[2]].ct_state = "paused"]

\* CpuTimer::Pause (lines 41-47) on the timer p, one timer_mutex section.
Pause(p) ==
    LET e == Obj(p).ex IN
    /\ cpu_time' = [cpu_time EXCEPT ![e] = @ + (Now - Obj(p).ct_time)]
    /\ failed_assert' = Checked(cpu_timer[e] = p, "Pause")
    /\ cpu_timer' = [cpu_timer EXCEPT ![e] = NullPtr]
    /\ holder_paused' = [holder_paused EXCEPT ![e] = @ + 1]

\* Mutant: Resume keeps the old start time.
Resumed_stale(p) == stack

\* CpuTimer::Resume (lines 49-55) on the timer p; the stack after time = Now().
Resumed(p) == [stack EXCEPT ![p[1]][p[2]].ct_time = Now,
                               ![p[1]][p[2]].ct_state = "on"]

\* Mutant: Resume does not install the timer.
Resume_lost(p) ==
    LET e == Obj(p).ex IN
    /\ failed_assert' = Checked(cpu_timer[e] = NullPtr, "Resume")
    /\ cpu_timer' = cpu_timer
    /\ holder_paused' = [holder_paused EXCEPT ![e] = @ - 1]

\* Mutant: Resume does not resume the isolate's timer_holder.
Resume_silent(p) ==
    LET e == Obj(p).ex IN
    /\ failed_assert' = Checked(cpu_timer[e] = NullPtr, "Resume")
    /\ cpu_timer' = [cpu_timer EXCEPT ![e] = p]
    /\ holder_paused' = holder_paused

Resume(p) ==
    LET e == Obj(p).ex IN
    /\ failed_assert' = Checked(cpu_timer[e] = NullPtr, "Resume")
    /\ cpu_timer' = [cpu_timer EXCEPT ![e] = p]
    /\ holder_paused' = [holder_paused EXCEPT ![e] = @ - 1]

\* A new scope may be opened by t.
CanOpen(t) == Running(t) /\ ops < MaxOps

Opened(t) ==
    /\ ops' = ops + 1
    /\ entry' = IF Depth(t) = 0
                THEN [entry EXCEPT ![t] =
                        [current_executor |-> current_executor[t],
                         cpu_timer_thread |-> cpu_timer_thread[t]]]
                ELSE entry
    /\ UNCHANGED <<made, ndebug>>

----------------------------------------------------------------------------
\* Lock::Lock, lines 115-121

\* Mutant: the WallTimer does not pause the outer CpuTimer.
WallTimerPauses_never(p) == FALSE

\* WallTimer's test before Pause (line 77).
WallTimerPauses(p) == p # NullPtr

\* Mutant: the WallTimer never installs itself.
WallTimerStarts_never(e) == FALSE

\* WallTimer's unguarded test executor.wall_timer == nullptr (line 81).
WallTimerStarts(e) == wall_timer[e] = NullPtr

\* scope{env} (108-110) and wall_timer{env.executor} up to the test of
\* executor.wall_timer (74-81).
LockEnter(t, e) ==
    LET p == cpu_timer_thread[t] IN
    /\ current_executor' = [current_executor EXCEPT ![t] = e]
    /\ IF WallTimerPauses(p)
       THEN /\ Section(t, Obj(p).ex)
            /\ Pause(p)
            /\ stack' = Push(Paused(p), t, [NewFrame("Lock", e, t) EXCEPT !.wt_cpu = p])
       ELSE /\ stack' = Push(stack, t, [NewFrame("Lock", e, t) EXCEPT !.wt_cpu = p])
            /\ UNCHANGED <<cpu_time, cpu_timer, holder_paused, timer_mutex,
                           failed_assert>>
    /\ Goto(t, IF WallTimerStarts(e) THEN "wall_install" ELSE "acquire")
    /\ Opened(t)
    /\ UNCHANGED <<cpu_timer_thread, wall_time, wall_timer, locker, now>>

\* The thread is in an Unlock window of its own: its innermost frame that is
\* no Scope is an Unlock.
InWindow(t) ==
    \E k \in 1 .. Depth(t) :
        /\ stack[t][k].kind = "Unlock"
        /\ \A j \in (k + 1) .. Depth(t) : stack[t][j].kind = "Scope"

\* A Lock constructed at thread level or inside a Lock.
LockBegin(t, e) ==
    /\ CanOpen(t)
    /\ ~InWindow(t)
    /\ LockEnter(t, e)

\* A Lock constructed inside an Unlock window of the same thread.
LockBeginInUnlock(t, e) ==
    /\ CanOpen(t)
    /\ InWindow(t)
    /\ LockEnter(t, e)

\* Lines 82-84 under timer_mutex.
WallTimerInstall(t) ==
    /\ At(t, "wall_install")
    /\ Section(t, Top(t).ex)
    /\ wall_timer' = [wall_timer EXCEPT ![Top(t).ex] = Ptr(t, Depth(t))]
    /\ stack' = SetTop(t, [Top(t) EXCEPT !.wt_time = now])
    /\ Goto(t, "acquire")
    /\ UNCHANGED <<current_executor, cpu_timer_thread, cpu_time, wall_time, cpu_timer,
                   locker, holder_paused, failed_assert, now, ops, entry, made, ndebug>>

\* v8::Locker may take the isolate: it is free, or this thread holds it already.
LockerFree(t, e) == locker[e] \in {NoThread, t}

\* locker{env.isolate} (line 118), then the CpuTimer's initialisers and the
\* push on the thread's stack (lines 21-23).
LockAcquire(t) ==
    LET e == Top(t).ex IN
    /\ At(t, "acquire")
    /\ LockerFree(t, e)
    /\ locker' = [locker EXCEPT ![e] = t]
    /\ stack' = SetTop(t, [Top(t) EXCEPT !.has_lock = (locker[e] = NoThread),
                                         !.ct_last = cpu_timer_thread[t],
                                         !.ct_time = Now,
                                         !.ct_state = "new"])
    /\ cpu_timer_thread' = [cpu_timer_thread EXCEPT ![t] = Ptr(t, Depth(t))]
    /\ Goto(t, "cpu_install")
    /\ UNCHANGED <<current_executor, cpu_time, wall_time, cpu_timer, wall_timer,
                   holder_paused, timer_mutex, failed_assert, now, ops, entry, made, ndebug>>

\* CpuTimer::CpuTimer under timer_mutex (lines 24-26).
CpuTimerInstall(t) ==
    LET e == Top(t).ex IN
    /\ At(t, "cpu_install")
    /\ Section(t, e)
    /\ failed_assert' = Checked(cpu_timer[e] = NullPtr, "CpuTimer")
    /\ cpu_timer' = [cpu_timer EXCEPT ![e] = Ptr(t, Depth(t))]
    /\ stack' = SetTop(t, [Top(t) EXCEPT !.ct_state = "on"])
    /\ Goto(t, "run")
    /\ UNCHANGED <<current_executor, cpu_timer_thread, cpu_time, wall_time,
                   wall_timer, locker, holder_paused, now, ops, entry, made, ndebug>>

----------------------------------------------------------------------------
\* ~Lock: the members in reverse order

\* Mutant: the destructor leaves the thread's stack head alone.
CpuTimerPop_keep(t) == cpu_timer_thread[t]

\* The head of the thread's timer stack after line 30.
CpuTimerPop(t) == Top(t).ct_last

\* CpuTimer::~CpuTimer (lines 29-35).
CpuTimerDtor(t) ==
    LET e == Top(t).ex IN
    /\ Running(t)
    /\ Depth(t) > 0 /\ Top(t).kind = "Lock"
    /\ Section(t, e)
    /\ cpu_timer_thread' = [cpu_timer_thread EXCEPT ![t] = CpuTimerPop(t)]
    /\ stack' = SetTop(t, [Top(t) EXCEPT !.ct_state = "none"])
    /\ cpu_time' = [cpu_time EXCEPT ![e] = @ + (Now - Top(t).ct_time)]
    /\ failed_assert' = Checked(cpu_timer[e] = Ptr(t, Depth(t)), "~CpuTimer")
    /\ cpu_timer' = [cpu_timer EXCEPT ![e] = NullPtr]
    /\ Goto(t, "release")
    /\ UNCHANGED <<current_executor, wall_time, wall_timer, locker,
                   holder_paused, now, ops, entry, made, ndebug>>

\* WallTimer's test before Resume (line 90).
WallTimerResumes(p) == p # NullPtr

\* v8::~Locker of line 118's member gives the isolate back if it took it,
\* then WallTimer::~WallTimer resumes the outer CpuTimer (lines 89-92).
LockRelease(t) ==
    LET p == Top(t).wt_cpu IN
    /\ At(t, "release")
    /\ locker' = IF Top(t).has_lock THEN [locker EXCEPT ![Top(t).ex] = NoThread]
                 ELSE locker
    /\ IF WallTimerResumes(p)
       THEN Section(t, Obj(p).ex) /\ Resume(p) /\ stack' = Resumed(p)
       ELSE UNCHANGED <<stack, cpu_timer, holder_paused, timer_mutex, failed_assert>>
    /\ Goto(t, "wall_owner")
    /\ UNCHANGED <<current_executor, cpu_timer_thread, cpu_time, wall_time,
                   wall_timer, now, ops, entry, made, ndebug>>

\* ~Scope: current_executor = last, and the Lock's frame is gone.
ScopeExit(t) ==
    /\ current_executor' = [current_executor EXCEPT ![t] = Top(t).last]
    /\ Goto(t, "run")

\* The unguarded test executor.wall_timer == this (line 94).
WallTimerOwner(t) ==
    /\ At(t, "wall_owner")
    /\ IF wall_timer[Top(t).ex] = Ptr(t, Depth(t))
       THEN Goto(t, "wall_clear") /\ UNCHANGED <<stack, current_executor>>
       ELSE ScopeExit(t) /\ stack' = Pop(stack, t)
    /\ UNCHANGED <<cpu_timer_thread, shared, now, ops, entry, made, ndebug>>

\* Lines 95-97 under timer_mutex, then ~Scope.
WallTimerClear(t) ==
    LET e == Top(t).ex IN
    /\ At(t, "wall_clear")
    /\ Section(t, e)
    /\ wall_timer' = [wall_timer EXCEPT ![e] = NullPtr]
    /\ wall_time' = [wall_time EXCEPT ![e] = @ + (now - Top(t).wt_time)]
    /\ ScopeExit(t) /\ stack' = Pop(stack, t)
    /\ UNCHANGED <<cpu_timer_thread, cpu_time, cpu_timer, locker, holder_paused,
                   failed_assert, now, ops, entry, made, ndebug>>

----------------------------------------------------------------------------
\* Scope (lines 108-110) used alone

ScopeBegin(t, e) ==
    /\ CanOpen(t)
    /\ stack' = Push(stack, t, NewFrame("Scope", e, t))
    /\ current_executor' = [current_executor EXCEPT ![t] = e]
    /\ Opened(t)
    /\ UNCHANGED <<pc, cpu_timer_thread, shared, now>>

ScopeEnd(t) ==
    /\ Running(t)
    /\ Depth(t) > 0 /\ Top(t).kind = "Scope"
    /\ ScopeExit(t) /\ stack' = Pop(stack, t)
    /\ UNCHANGED <<cpu_timer_thread, shared, now, ops, entry, made, ndebug>>

----------------------------------------------------------------------------
\* Unlock (line 126)

\* PauseScope's constructor pauses the timer it is given.
PauseScopeCtor(p) == Pause(p)

\* PauseScope's destructor resumes it.
PauseScopeDtor(p) == Resume(p)

\* pause_scope{env.executor.cpu_timer}: the argument is an unguarded read.
\* Unlock(env) is used by the thread whose innermost scope is Lock(env).
UnlockBegin(t) ==
    LET p == cpu_timer[Top(t).ex] IN
    /\ CanOpen(t)
    /\ Depth(t) > 0 /\ Top(t).kind = "Lock"
    /\ IF p = NullPtr
       THEN \* timer->Pause() through a null pointer
            /\ failed_assert' = "null"
            /\ UNCHANGED <<stack, cpu_time, cpu_timer, holder_paused, timer_mutex, pc>>
       ELSE /\ stack' = Push(Paused(p), t,
                             [NewFrame("Unlock", Top(t).ex, t) EXCEPT !.ps_timer = p])
            /\ Section(t, Top(t).ex)
            /\ PauseScopeCtor(p)
            /\ Goto(t, "unlocker")
    /\ Opened(t)
    /\ UNCHANGED <<current_executor, cpu_timer_thread, wall_time, wall_timer,
                   locker, now>>

\* unlocker{env.isolate}: v8::Unlocker gives the isolate up.
UnlockRelease(t) ==
    /\ At(t, "unlocker")
    /\ locker' = [locker EXCEPT ![Top(t).ex] = NoThread]
    /\ Goto(t, "run")
    /\ UNCHANGED <<stack, current_executor, cpu_timer_thread, cpu_time, wall_time,
                   cpu_timer, wall_timer, holder_paused, timer_mutex, failed_assert,
                   now, ops, entry, made, ndebug>>

\* ~Unlocker: takes the isolate again, waiting until it is free.
UnlockReacquire(t) ==
    /\ Running(t)
    /\ Depth(t) > 0 /\ Top(t).kind = "Unlock"
    /\ locker[Top(t).ex] = NoThread
    /\ locker' = [locker EXCEPT ![Top(t).ex] = t]
    /\ Goto(t, "resume")
    /\ UNCHANGED <<stack, current_executor, cpu_timer_thread, cpu_time, wall_time,
                   cpu_timer, wall_timer, holder_paused, timer_mutex, failed_assert,
                   now, ops, entry, made, ndebug>>

\* ~PauseScope, and the Unlock's frame is gone.
UnlockResume(t) ==
    /\ At(t, "resume")
    /\ Section(t, Top(t).ex)
    /\ PauseScopeDtor(Top(t).ps_timer)
    /\ stack' = Pop(Resumed(Top(t).ps_timer), t)
    /\ Goto(t, "run")
    /\ UNCHANGED <<current_executor, cpu_timer_thread, cpu_time, wall_time,
                   wall_timer, locker, now, ops, entry, made, ndebug>>

----------------------------------------------------------------------------
\* The clock advances.
Tick ==
    /\ Alive
    /\ now < MaxTime
    /\ now' = now + 1
    /\ UNCHANGED <<stack, pc, current_executor, cpu_timer_thread, shared, ops, entry, made, ndebug>>

\* The positions at which the thread's next statement is a std::lock_guard
\* on the timer_mutex of its innermost frame's executor: lines 24, 82 and 95,
\* and line 50 in ~PauseScope.
AtGuard(t) == pc[t] \in {"wall_install", "cpu_install", "wall_clear", "resume"}

\* The lock_guard's constructor as a step of its own: t takes the mutex and
\* executes the section in a later step.
MutexLock(t) ==
    /\ Alive
    /\ AtGuard(t)
    /\ timer_mutex[Top(t).ex] = NoThread
    /\ timer_mutex' = LockGuard(timer_mutex, Top(t).ex, t)
    /\ UNCHANGED <<stack, pc, current_executor, cpu_timer_thread, cpu_time, wall_time,
                   cpu_timer, wall_timer, locker, holder_paused, failed_assert,
                   now, ops, entry, made, ndebug>>

LockSteps(t) ==
    \/ WallTimerInstall(t)
    \/ LockAcquire(t)
    \/ CpuTimerInstall(t)
    \/ CpuTimerDtor(t)
    \/ LockRelease(t)
    \/ WallTimerOwner(t)
    \/ WallTimerClear(t)

UnlockSteps(t) ==
    \/ UnlockBegin(t)
    \/ UnlockRelease(t)
    \/ UnlockReacquire(t)
    \/ UnlockResume(t)

\* Threads that nest Lock and Scope only.
NextLock ==
    \/ Tick
    \/ \E t \in Threads :
        \/ \E e \in Executors : LockBegin(t, e) \/ ScopeBegin(t, e)
        \/ LockSteps(t)
        \/ ScopeEnd(t)

\* ... and open Unlock windows, in which the thread itself enters nothing.
NextUnlock ==
    \/ NextLock
    \/ \E t \in Threads : UnlockSteps(t)

\* ... and enter isolates inside their own Unlock windows.
Next ==
    \/ NextUnlock
    \/ \E t \in Threads, e \in Executors : LockBeginInUnlock(t, e)

\* ... with the lock_guard constructors as steps of their own.
NextMutex ==
    \/ NextUnlock
    \/ \E t \in Threads : MutexLock(t)

\* Disjoint Lock scopes one after another: a Lock is constructed only when no
\* scope of any thread is alive.
SeqLockBegin(t, e) ==
    /\ \A u \in Threads : Depth(u) = 0
    /\ LockBegin(t, e)

NextSeq ==
    \/ Tick
    \/ \E t \in Threads :
        \/ \E e \in Executors : SeqLockBegin(t, e)
        \/ LockSteps(t)

\* Threads constructing executors, inside and outside Scopes of the
\* executors there are.
CtorScopeBegin(t, e) ==
    /\ default_executor[e] # NoExecutor
    /\ ScopeBegin(t, e)

NextCtor ==
    \E t \in Threads :
        \/ \E e \in AllExecutors : Construct(t, e) \/ CtorScopeBegin(t, e)
        \/ ScopeEnd(t)

SpecLock == Init /\ [][NextLock]_vars
SpecUnlock == Init /\ [][NextUnlock]_vars
Spec == Init /\ [][Next]_vars
SpecRelease == InitRelease /\ [][Next]_vars
SpecMutex == Init /\ [][NextMutex]_vars
SpecSeq == Init /\ [][NextSeq]_vars
SpecCtor == InitCtor /\ [][NextCtor]_vars

----------------------------------------------------------------------------
\* Vocabulary of the properties

\* The CpuTimer p is installed on its executor.
Installed(p) == \E e \in Executors : cpu_timer[e] = p

\* Thread t owns the CpuTimer installed on e.
Charges(t, e) == cpu_timer[e] # NullPtr /\ cpu_timer[e][1] = t

\* Thread t is at the locker of Lock(e): waiting for it, or about to take it.
AtLocker(t) == pc[t] = "acquire"

Frames(t) == 1 .. Depth(t)

\* Frame j of t is a Lock constructed inside the Lock of frame i, with
\* nothing but Scopes between them.
Nested(t, i, j) ==
    /\ i < j /\ j <= Depth(t)
    /\ stack[t][i].kind = "Lock" /\ stack[t][j].kind = "Lock"
    /\ \A k \in (i + 1) .. (j - 1) : stack[t][k].kind = "Scope"

\* ... a Lock of another isolate,
NestedLock(t, i, j) == Nested(t, i, j) /\ stack[t][i].ex # stack[t][j].ex

\* ... whose WallTimer is constructed and whose destructor has not begun,
InsideNested(t, i, j) ==
    /\ NestedLock(t, i, j)
    /\ j < Depth(t)
       \/ pc[t] \in {"wall_install", "acquire", "cpu_install", "run", "release"}

\* ... whose WallTimer's destructor has resumed the outer timer.
LeavingNested(t, i, j) ==
    /\ NestedLock(t, i, j)
    /\ j = Depth(t)
    /\ pc[t] \in {"wall_owner", "wall_clear"}

----------------------------------------------------------------------------
\* C1: while a thread is at the isolate locker inside Lock(E), none of its
\* CpuTimers is installed on any executor.
C1_NoTimerWhileWaiting ==
    \A t \in Threads : AtLocker(t) => \A e \in Executors : ~Charges(t, e)

\* A thread with a paused outer CpuTimer waits for a locker another thread
\* holds, and the clock has advanced.
C1_Witness ==
    \E t \in Threads :
        /\ AtLocker(t)
        /\ Top(t).wt_cpu # NullPtr
        /\ locker[Top(t).ex] \notin {NoThread, t}
        /\ now > 0

\* Inside the inner Lock the thread has entered the outer isolate again.
Reentered(t, i, j) ==
    \E k \in (j + 1) .. Depth(t) :
        stack[t][k].kind = "Lock" /\ stack[t][k].ex = stack[t][i].ex

\* C2 as stated: Lock(B) nested in Lock(A) on one thread, B # A: while B's
\* WallTimer lives A.cpu_timer is null and A.cpu_time does not change; B's
\* exit installs A's own CpuTimer again with time = Now().
C2_StatedInside ==
    \A t \in Threads : \A i \in Frames(t), j \in Frames(t) :
        /\ InsideNested(t, i, j) => cpu_timer[stack[t][i].ex] = NullPtr
        /\ LeavingNested(t, i, j) => cpu_timer[stack[t][i].ex] = Ptr(t, i)

C2_StatedStep ==
    \A t \in Threads : \A i \in Frames(t), j \in Frames(t) :
        InsideNested(t, i, j) =>
            /\ cpu_time'[stack[t][i].ex] = cpu_time[stack[t][i].ex]
            /\ LeavingNested(t, i, j)' => stack'[t][i].ct_time = now

\* C2 as stated, the state and the step part together.
C2_AsStated == []C2_StatedInside /\ [][C2_StatedStep]_vars

\* C2 amended: the same, except while the thread has entered A again through
\* a Lock(A) nested inside that Lock(B).
C2_Inside ==
    \A t \in Threads : \A i \in Frames(t), j \in Frames(t) :
        /\ InsideNested(t, i, j) /\ ~Reentered(t, i, j)
                => cpu_timer[stack[t][i].ex] = NullPtr
        /\ LeavingNested(t, i, j) => cpu_timer[stack[t][i].ex] = Ptr(t, i)

C2_Step ==
    \A t \in Threads : \A i \in Frames(t), j \in Frames(t) :
        InsideNested(t, i, j) =>
            /\ ~Reentered(t, i, j)
                => cpu_time'[stack[t][i].ex] = cpu_time[stack[t][i].ex]
            /\ LeavingNested(t, i, j)' => stack'[t][i].ct_time = now

\* C2 amended, the state and the step part together.
C2_CrossIsolateNesting == []C2_Inside /\ [][C2_Step]_vars

\* The clock advanced inside B only: A was charged nothing, B one unit, and
\* A's timer is installed again, started at the time of B's exit.
C2_Witness ==
    \E t \in Threads :
        /\ LeavingNested(t, 1, 2)
        /\ now = 1
        /\ stack[t][1].ct_time = 1
        /\ cpu_time[stack[t][1].ex] = 0
        /\ cpu_time[stack[t][2].ex] = 1

\* The CpuTimers that are constructed and not paused.
Unpaused(e) ==
    {p \in UNION {{Ptr(t, i) : i \in Frames(t)} : t \in Threads} :
        Obj(p).kind = "Lock" /\ Obj(p).ex = e /\ Obj(p).ct_state = "on"}

PausedTimers(e) ==
    {p \in UNION {{Ptr(t, i) : i \in Frames(t)} : t \in Threads} :
        Obj(p).kind = "Lock" /\ Obj(p).ex = e /\ Obj(p).ct_state = "paused"}

\* C3: threads nesting Locks only: an executor never has two live un-paused
\* CpuTimers, its cpu_timer is that one or null, and no CpuTimer constructor
\* or Resume finds executor.cpu_timer set.
C3_OneTimerPerExecutor ==
    /\ \A e \in Executors :
        /\ Cardinality(Unpaused(e)) <= 1
        /\ Unpaused(e) = IF cpu_timer[e] = NullPtr THEN {} ELSE {cpu_timer[e]}
    /\ failed_assert \notin {"CpuTimer", "Resume"}

\* An executor with a running CpuTimer and a paused one: Lock(E) in Lock(E).
C3_Witness ==
    \E e \in Executors :
        /\ Unpaused(e) # {}
        /\ PausedTimers(e) # {}

\* C4: no assert of CpuTimer fails, whatever the nesting of Lock and Unlock
\* scopes, a Lock inside an Unlock window included.
C4_NoAssertFails == failed_assert = "none"

\* Thread t executes inside Lock(e): the Lock is complete and innermost, and
\* t holds e's locker.
InsideLock(t, e) ==
    /\ pc[t] = "run" /\ Depth(t) > 0
    /\ Top(t).kind = "Lock" /\ Top(t).ex = e
    /\ locker[e] = t

\* C5: whenever a thread executes inside Lock(E), E.wall_timer is set, so the
\* time it spends there is added to E.wall_time.
C5_WallTimerWhileInside ==
    \A t \in Threads, e \in Executors : InsideLock(t, e) => wall_timer[e] # NullPtr

\* Frame i is the outermost Lock(E) of t and frame j a Lock(E) nested in it.
SameNested(t, i, j) ==
    /\ i < j /\ j <= Depth(t)
    /\ stack[t][i].kind = "Lock" /\ stack[t][j].kind = "Lock"
    /\ stack[t][i].ex = stack[t][j].ex
    /\ \A k \in 1 .. (i - 1) :
        ~(stack[t][k].kind = "Lock" /\ stack[t][k].ex = stack[t][i].ex)

\* Thread t takes the step.
Steps(t) == pc'[t] # pc[t] \/ Len(stack'[t]) # Len(stack[t])

\* C6: Lock(E) nested in Lock(E) on one thread: the steps of the inner
\* Lock's construction and destruction leave E.wall_timer and E.wall_time as
\* they are.
C6_InnerStep ==
    \A t \in Threads : \A i \in Frames(t) :
        SameNested(t, i, Depth(t)) /\ Steps(t) =>
            /\ wall_timer'[stack[t][i].ex] = wall_timer[stack[t][i].ex]
            /\ wall_time'[stack[t][i].ex] = wall_time[stack[t][i].ex]

\* C6 as a property of every step.
C6_NoDoubleWallTime == [][C6_InnerStep]_vars

\* The WallTimer p is being cleared by its own destructor (lines 95-97).
ClearsOwn(p) ==
    /\ pc[p[1]] = "wall_clear" /\ Depth(p[1]) = p[2]
    /\ Len(stack'[p[1]]) < p[2]

\* C7: an installed WallTimer stays E.wall_timer until its own destructor
\* clears it.
C7_WallTimerStep ==
    \A e \in Executors :
        wall_timer[e] # NullPtr =>
            \/ wall_timer'[e] = wall_timer[e]
            \/ wall_timer'[e] = NullPtr /\ ClearsOwn(wall_timer[e])

\* C7 as a property of every step.
C7_InstalledUntilCleared == [][C7_WallTimerStep]_vars

\* CpuTimer::Delta (lines 37-39) and WallTimer::Delta (lines 101-103).
CpuDelta(p) == Now - Obj(p).ct_time
WallDelta(p) == now - Obj(p).wt_time

\* What a reader computes under timer_mutex: the total plus the live Delta.
CpuTimeRead(e) ==
    cpu_time[e] + IF cpu_timer[e] # NullPtr THEN CpuDelta(cpu_timer[e]) ELSE 0
WallTimeRead(e) ==
    wall_time[e] + IF wall_timer[e] # NullPtr THEN WallDelta(wall_timer[e]) ELSE 0

\* C8: successive reads never decrease and never exceed the time since the
\* executor was created (time 0).
C8_ReadBounded ==
    \A e \in Executors : CpuTimeRead(e) <= now /\ WallTimeRead(e) <= now

C8_ReadStep ==
    \A e \in Executors :
        /\ CpuTimeRead(e)' >= CpuTimeRead(e)
        /\ WallTimeRead(e)' >= WallTimeRead(e)

\* C8: both halves, for cpu_time and for wall_time.
C8_ReaderConsistency == []C8_ReadBounded /\ [][C8_ReadStep]_vars

\* Frame k of t is an Unlock.
IsUnlock(t, k) == k >= 1 /\ k <= Depth(t) /\ stack[t][k].kind = "Unlock"

\* ... whose window is open: the isolate is given up and not yet taken again.
WindowOpen(t, k) ==
    /\ IsUnlock(t, k)
    /\ k < Depth(t) \/ pc[t] = "run"

\* C9: Unlock(E) by T inside Lock(E): T's CpuTimer is off E as long as the
\* Unlock lives; it is paused while T still holds the locker, T does not hold
\* the locker in the window, and T holds it again before the timer returns.
C9_Window ==
    \A t \in Threads : \A k \in Frames(t) :
        IsUnlock(t, k) =>
            /\ stack[t][k].ps_timer = Ptr(t, k - 1)
            /\ cpu_timer[stack[t][k].ex] # stack[t][k].ps_timer
            /\ stack[t][k - 1].ct_state = "paused"
            /\ k = Depth(t) /\ pc[t] = "unlocker" => locker[stack[t][k].ex] = t
            /\ WindowOpen(t, k) => locker[stack[t][k].ex] # t
            /\ k = Depth(t) /\ pc[t] = "resume" =>
                    /\ locker[stack[t][k].ex] = t
                    /\ cpu_timer[stack[t][k].ex] = NullPtr

\* ... E.cpu_time grows in the window only when another thread's installed
\* CpuTimer is flushed, by the time since that timer started; the Unlock's
\* end installs T's timer again with time = Now().
C9_WindowStep ==
    \A t \in Threads : \A k \in Frames(t) :
        IsUnlock(t, k) =>
            LET e == stack[t][k].ex
                q == cpu_timer[e]
            IN  /\ cpu_time'[e] # cpu_time[e] =>
                    /\ q # NullPtr /\ q[1] # t
                    /\ cpu_time'[e] = cpu_time[e] + CpuDelta(q)
                /\ k = Depth(t) /\ pc[t] = "resume" /\ Steps(t) =>
                    /\ cpu_timer'[e] = Ptr(t, k - 1)
                    /\ stack'[t][k - 1].ct_time = now
                    /\ stack'[t][k - 1].ct_state = "on"

\* C9, the state and the step part together.
C9_UnlockWindow == []C9_Window /\ [][C9_WindowStep]_vars

\* T's window is open and another thread is inside E, charging it since
\* before the clock advanced.
C9_Witness ==
    \E t \in Threads, u \in Threads :
        /\ u # t
        /\ Depth(t) > 0 /\ WindowOpen(t, Depth(t))
        /\ InsideLock(u, Top(t).ex)
        /\ cpu_timer[Top(t).ex] = Ptr(u, Depth(u))
        /\ CpuDelta(Ptr(u, Depth(u))) = 1

\* C10: when a thread's outermost scope is gone its cpu_timer_thread and
\* current_executor are what they were before the scope was constructed, and
\* a step of one thread leaves the slots of the others alone.
C10_Restored ==
    \A t \in Threads :
        Depth(t) = 0 =>
            /\ cpu_timer_thread[t] = entry[t].cpu_timer_thread
            /\ current_executor[t] = entry[t].current_executor

C10_OthersStep ==
    \A u \in Threads :
        ~Steps(u) =>
            /\ cpu_timer_thread'[u] = cpu_timer_thread[u]
            /\ current_executor'[u] = current_executor[u]

\* C10, the state and the step part together.
C10_ThreadLocalsRestored == []C10_Restored /\ [][C10_OthersStep]_vars

\* Every scope is gone again after a Lock(B) in which the clock advanced.
C10_Witness ==
    /\ \A t \in Threads : Depth(t) = 0 /\ pc[t] = "run"
    /\ ops >= 2
    /\ wall_time["B"] = 1
    /\ current_executor["T"] = "A"
    /\ current_executor["U"] = NoExecutor

----------------------------------------------------------------------------
\* Thread t is at a point that may block on an isolate locker: the locker of
\* a Lock (line 118), or the end of its innermost Unlock's window.
WaitsForLocker(t) ==
    \/ AtLocker(t)
    \/ Depth(t) > 0 /\ WindowOpen(t, Depth(t))

\* C11: a thread waiting to take, or to take again, an isolate locker holds
\* no executor's timer_mutex.
C11_NoMutexWhileWaiting ==
    \A t \in Threads :
        WaitsForLocker(t) => \A e \in Executors : timer_mutex[e] # t

\* A thread waits for a locker that another thread holds, and that thread is
\* inside a timer_mutex section of the same executor.
C11_Witness ==
    \E t \in Threads, u \in Threads :
        /\ u # t
        /\ AtLocker(t)
        /\ locker[Top(t).ex] = u
        /\ timer_mutex[Top(t).ex] = u

----------------------------------------------------------------------------
\* The step in which t constructs a scoped object of kind k.
Constructs(t, k) ==
    /\ Len(stack'[t]) = Depth(t) + 1
    /\ stack'[t][Depth(t) + 1].kind = k

\* The holder of e's timer_mutex at the accesses that the code makes outside
\* a lock_guard block: the test of executor.wall_timer at line 81, which
\* follows the end of Pause's block; the test at line 94, the whole step; the
\* argument env.executor.cpu_timer of pause_scope at line 126, read before
\* PauseScope's constructor runs.
HolderAtLine81(t) == timer_mutex'[stack'[t][Depth(t) + 1].ex]
HolderAtLine94(t) == timer_mutex[Top(t).ex]
HolderAtLine126(t) == timer_mutex[Top(t).ex]

\* Executor e's accounting fields change in the step.
Written(e) ==
    \/ cpu_time'[e] # cpu_time[e]
    \/ wall_time'[e] # wall_time[e]
    \/ cpu_timer'[e] # cpu_timer[e]
    \/ wall_timer'[e] # wall_timer[e]

\* No step writes E's fields while another thread holds E's timer_mutex.
C12_WritesStep ==
    \A t \in Threads : \A e \in Executors :
        Steps(t) /\ Written(e) => timer_mutex[e] \in {NoThread, t}

\* C12: every read and every write of E's cpu_time, wall_time, cpu_timer and
\* wall_timer is made by a thread holding E's timer_mutex: no step writes them
\* while another thread holds it, and the reads of lines 81, 94 and 126 are
\* made by its holder.
C12_AccessStep ==
    /\ C12_WritesStep
    /\ \A t \in Threads :
        /\ Constructs(t, "Lock") => HolderAtLine81(t) = t
        /\ pc[t] = "wall_owner" /\ Steps(t) => HolderAtLine94(t) = t
        /\ Constructs(t, "Unlock") => HolderAtLine126(t) = t

\* C12 as a property of every step.
C12_AllAccessesGuarded == [][C12_AccessStep]_vars

----------------------------------------------------------------------------
\* C13 as stated: while a live CpuTimer of E is paused, E.cpu_timer is null
\* and what a reader computes for E's CPU time does not grow.
C13_StatedPaused ==
    \A e \in Executors : PausedTimers(e) # {} => cpu_timer[e] = NullPtr

C13_StatedStep ==
    \A e \in Executors :
        PausedTimers(e) # {} /\ PausedTimers(e)' # {} => CpuTimeRead(e)' = CpuTimeRead(e)

RunsBeside(q, p) ==
    \/ q[1] = p[1] /\ q[2] > p[2]
    \/ /\ q[1] # p[1]
       /\ \E k \in (p[2] + 1) .. Depth(p[1]) :
            IsUnlock(p[1], k) /\ stack[p[1]][k].ex = Obj(p).ex

\* C13 amended: while a live CpuTimer p of E is paused, E.cpu_timer is not p:
\* it is null, or the CpuTimer of a Lock(E) nested inside p's Lock, or that of
\* another thread inside E during an Unlock window of p's thread; and E.cpu_time grows only by the Delta of that installed
\* timer, never by p's.
C13_Paused ==
    \A e \in Executors : \A p \in PausedTimers(e) :
        /\ cpu_timer[e] # p
        /\ cpu_timer[e] # NullPtr => RunsBeside(cpu_timer[e], p)

C13_PausedStep ==
    \A e \in Executors :
        PausedTimers(e) # {} /\ cpu_time'[e] # cpu_time[e] =>
            /\ cpu_timer[e] # NullPtr
            /\ cpu_timer[e] \notin PausedTimers(e)
            /\ cpu_time'[e] = cpu_time[e] + CpuDelta(cpu_timer[e])

----------------------------------------------------------------------------
\* C14, in general: the pauses an executor's timer_holder has received and
\* not yet seen resumed are those of its paused CpuTimers, one each, so that
\* none is outstanding once the scopes are gone.
C14_Balanced ==
    \A e \in Executors : holder_paused[e] = Cardinality(PausedTimers(e))

\* C14, Lock(B) nested in Lock(A) on thread T, B # A: the step that begins
\* Lock(B) pauses A's timer_holder once, before B's locker is taken; T's
\* steps inside Lock(B) leave A's timer_holder alone; the step that resumes it
\* does so once, B's locker released; and no step of Lock(B)'s construction or
\* destruction pauses or resumes B's timer_holder.
C14_NestedStep ==
    \A t \in Threads : \A i \in Frames(t) :
        LET a == stack[t][i].ex IN
        /\ Constructs(t, "Lock") /\ NestedLock(t, i, Depth(t) + 1)' =>
                LET b == stack'[t][Depth(t) + 1].ex IN
                /\ holder_paused'[a] = holder_paused[a] + 1
                /\ holder_paused'[b] = holder_paused[b]
                /\ stack'[t][i].ct_state = "paused"
                /\ pc'[t] \in {"wall_install", "acquire"}
                /\ locker' = locker
        /\ NestedLock(t, i, Depth(t)) /\ Steps(t) /\ Len(stack'[t]) <= Depth(t) =>
                LET b == Top(t).ex IN
                /\ holder_paused'[b] = holder_paused[b]
                /\ IF pc[t] = "release"
                   THEN /\ holder_paused'[a] = holder_paused[a] - 1
                        /\ stack'[t][i].ct_state = "on"
                        /\ Top(t).has_lock => locker'[b] = NoThread
                   ELSE holder_paused'[a] = holder_paused[a]

\* C14, the state and the step part together.
C14_PauseResumePaired == []C14_Balanced /\ [][C14_NestedStep]_vars

\* T is inside Lock(B) inside Lock(A) after the clock advanced: A's
\* timer_holder has one pause outstanding, B's none.
C14_Witness ==
    \E t \in Threads :
        /\ Depth(t) = 2 /\ pc[t] = "run"
        /\ NestedLock(t, 1, 2)
        /\ holder_paused[stack[t][1].ex] = 1
        /\ holder_paused[stack[t][2].ex] = 0
        /\ now = 1

----------------------------------------------------------------------------
\* The Lock(e) scope of some thread has constructed its CpuTimer (line 22)
\* and not yet destroyed it (line 32).
CpuScopeOpen(t, e) ==
    /\ Depth(t) = 1 /\ Top(t).kind = "Lock" /\ Top(t).ex = e
    /\ pc[t] \in {"cpu_install", "run"}

\* ... has installed its WallTimer (line 84) and not yet cleared it (line 97).
WallScopeOpen(t, e) ==
    /\ Depth(t) = 1 /\ Top(t).kind = "Lock" /\ Top(t).ex = e
    /\ pc[t] \in {"acquire", "cpu_install", "run", "release", "wall_owner",
                  "wall_clear"}

\* The threads with such a scope: at most one.
OpenCpu(e) == {t \in Threads : CpuScopeOpen(t, e)}
OpenWall(e) == {t \in Threads : WallScopeOpen(t, e)}

\* E's totals plus the time the open scope has lasted so far.
CpuTimeSeq(e) ==
    cpu_time[e] + IF OpenCpu(e) # {}
                  THEN now - Top(CHOOSE t \in OpenCpu(e) : TRUE).ct_time
                  ELSE 0
WallTimeSeq(e) ==
    wall_time[e] + IF OpenWall(e) # {}
                   THEN now - Top(CHOOSE t \in OpenWall(e) : TRUE).wt_time
                   ELSE 0

\* C15: disjoint Lock(E) scopes one after another: E.cpu_time grows by the
\* time from each CpuTimer's construction to its destruction and by nothing
\* else, E.wall_time by the time from each WallTimer's installation to its
\* destruction and by nothing else, and neither total ever decreases.
C15_SeqStep ==
    \A e \in Executors :
        /\ cpu_time'[e] >= cpu_time[e]
        /\ wall_time'[e] >= wall_time[e]
        /\ CpuTimeSeq(e)' = CpuTimeSeq(e) +
                IF now' # now /\ OpenCpu(e) # {} THEN 1 ELSE 0
        /\ WallTimeSeq(e)' = WallTimeSeq(e) +
                IF now' # now /\ OpenWall(e) # {} THEN 1 ELSE 0

\* ... and a scope under construction has taken the clock's value at line 22
\* and at line 84.
C15_SeqTimes ==
    \A t \in Threads :
        /\ pc[t] = "wall_install" /\ pc'[t] = "acquire" => stack'[t][1].wt_time = now
        /\ pc[t] = "acquire" /\ pc'[t] = "cpu_install" => stack'[t][1].ct_time = now

\* C15 as a property of every step.
C15_SequentialTotals == [][C15_SeqStep /\ C15_SeqTimes]_vars

\* After a scope in which the clock advanced, every scope is gone and the
\* executor has been charged the unit on both totals.
C15_Witness ==
    \E e \in Executors :
        /\ \A t \in Threads : Depth(t) = 0
        /\ ops >= 2
        /\ cpu_time[e] = 1 /\ wall_time[e] = 1

----------------------------------------------------------------------------
\* The executors constructed so far.
Made == {x \in AllExecutors : default_executor[x] # NoExecutor}

\* The executor at the end of x's chain of default executors.
RECURSIVE Root(_)
Root(x) == IF default_executor[x] = x THEN x ELSE Root(default_executor[x])

\* C16, the constructor: on a thread with no current executor the new
\* executor X is its own default, X.default_thread is that thread and X is
\* the thread's current executor from then on; on a thread whose current
\* executor is C, X.default_executor is C, X.default_thread is
\* C.default_thread and no current_executor changes.
C16_CtorStep ==
    \A x \in AllExecutors :
        default_executor'[x] # default_executor[x] =>
            /\ default_executor[x] = NoExecutor
            /\ \E t \in Threads :
                /\ \A u \in Threads \ {t} : current_executor'[u] = current_executor[u]
                /\ IF current_executor[t] = NoExecutor
                   THEN /\ default_executor'[x] = x
                        /\ default_thread'[x] = t
                        /\ current_executor'[t] = x
                   ELSE /\ default_executor'[x] = current_executor[t]
                        /\ default_thread'[x] = default_thread[current_executor[t]]
                        /\ current_executor'[t] = current_executor[t]

\* C16, the consequences: an executor's default_thread is that of its default
\* executor and of the root of its chain, the root's default_thread is the
\* thread that constructed it, which has that root as its current executor
\* whenever it is in no scope, and what is written at construction never
\* changes.
C16_Chain ==
    \A x \in Made :
        /\ default_executor[x] \in Made
        /\ default_thread[x] \in Threads
        /\ default_thread[x] = default_thread[default_executor[x]]
        /\ default_thread[x] = default_thread[Root(x)]
        /\ default_executor[x] = x /\ Depth(default_thread[x]) = 0
                => current_executor[default_thread[x]] = x

C16_KeptStep ==
    \A x \in Made :
        /\ default_executor'[x] = default_executor[x]
        /\ default_thread'[x] = default_thread[x]

\* C16, the state and the step part together.
C16_DefaultThreadChain == []C16_Chain /\ [][C16_CtorStep /\ C16_KeptStep]_vars

\* A chain of three executors: the third's default is the second, whose
\* default is the root, and a thread other than the root's has the second as
\* its current executor.
C16_Witness ==
    \E x \in Made, y \in Made, z \in Made :
        /\ default_executor[x] = x
        /\ default_executor[y] = x /\ y # x
        /\ default_executor[z] = y /\ z # y
        /\ \E u \in Threads : u # default_thread[z] /\ current_executor[u] = y

----------------------------------------------------------------------------
\* C17: E's timer_holder has a pause outstanding only while no CpuTimer is
\* installed on E; whenever a CpuTimer is installed on E and charging it, the
\* timer_holder has none.
C17_HolderLockstep ==
    \A e \in Executors : holder_paused[e] > 0 => cpu_timer[e] = NullPtr

----------------------------------------------------------------------------
\* The CpuTimers of e that are running: constructed (line 22) or resumed
\* (line 51), and neither paused nor destroyed since.
RunningTimers(e) ==
    {p \in UNION {{Ptr(t, i) : i \in Frames(t)} : t \in Threads} :
        Obj(p).kind = "Lock" /\ Obj(p).ex = e /\ Obj(p).ct_state \in {"new", "on"}}

RECURSIVE SumDelta(_)
SumDelta(ps) ==
    IF ps = {} THEN 0
    ELSE LET p == CHOOSE q \in ps : TRUE IN CpuDelta(p) + SumDelta(ps \ {p})

\* E.cpu_time plus the live Delta of E's running CpuTimer.
CpuCharged(e) == cpu_time[e] + SumDelta(RunningTimers(e))

\* C18: E.cpu_time plus the live Delta of E's CpuTimer is the clock time
\* during which E had a running CpuTimer: every tick of the clock with a
\* running CpuTimer adds one, and no construction, Pause, Resume or
\* destruction changes the sum, so that no interval is flushed twice and
\* none is lost.
C18_ChargedStep ==
    \A e \in Executors :
        CpuCharged(e)' = CpuCharged(e) +
            IF now' # now THEN Cardinality(RunningTimers(e)) ELSE 0

\* C18 as a property of every step.
C18_Conservative == [][C18_ChargedStep]_vars

----------------------------------------------------------------------------
\* The CpuTimers reached from p through `last`, p first.
RECURSIVE Chain(_)
Chain(p) == IF p = NullPtr THEN <<>> ELSE <<p>> \o Chain(Obj(p).ct_last)

\* The CpuTimers of thread t that are constructed and not destroyed.
LiveTimers(t) ==
    {Ptr(t, i) : i \in {j \in Frames(t) :
        stack[t][j].kind = "Lock" /\ stack[t][j].ct_state # "none"}}

----------------------------------------------------------------------------
\* C20: a CpuTimer installed on E belongs to the thread that holds E's
\* isolate locker, in every state of every interleaving of nested Lock and
\* Unlock scopes.
C20_InstalledUnderLocker ==
    \A e \in Executors :
        cpu_timer[e] # NullPtr => locker[e] = cpu_timer[e][1]

====
